---- MODULE Spec2Model ----
(***************************************************************************)
(* Model of the Archy crawler service (src/crawler/main.py):               *)
(*   - clean_terraform_docs, the pure markdown cleaner, computed on        *)
(*     character strings exactly as the Python code computes it;           *)
(*   - scrape_url, the POST /scrape handler, as a process per request      *)
(*     whose steps are separated at the handler's await points.            *)
(* Python indices are kept 0-based (doc_start, doc_end, kept); a line i    *)
(* of the Python list `lines` is lines[i + 1] here.                        *)
(***************************************************************************)
EXTENDS Integers, Sequences, FiniteSets, TLC

VARIABLES
    raw,        \* clean spec: the markdown handed to clean_terraform_docs
    phase,      \* clean spec: "input" | "cleaned" | "recleaned" (or "off")
    run,        \* clean spec: locals and result of clean_terraform_docs(raw)
    run2,       \* clean spec: locals and result of cleaning run.markdown again
    pc,         \* request -> "idle" | "entering" | "running" | "closing" | "done"
    url,        \* request -> request.url
    full_url,   \* request -> the local full_url
    crawler,    \* request -> id of the AsyncWebCrawler it constructed, 0 before
    sessions,   \* sequence over crawler ids: "open" | "closed"
    handed,     \* request -> sequence of the urls it passed to crawler.arun
    result,     \* request -> what crawler.arun produced
    cleaned,    \* request -> sequence of the values clean_terraform_docs returned
    pending,    \* request -> how control leaves the `async with` block
    teardown,   \* request -> "none" | "ok" | "raised": how __aexit__ ended
    outcome     \* request -> what scrape_url returned or raised

cleanVars == <<raw, phase, run, run2>>
scrapeVars == <<pc, url, full_url, crawler, sessions, handed, result, cleaned,
                pending, teardown, outcome>>
vars == <<cleanVars, scrapeVars>>

-----------------------------------------------------------------------------
(* Bounds of the model                                                     *)

MaxLines == 4
MaxFilterLines == 2
MaxChars == 7
NumRequests == 2

-----------------------------------------------------------------------------
(* Program constants                                                       *)

NavLineGuard == 150
MaxLinks == 5
MinContent == 200

StartPrefixes == {"# azurerm_", "# data.azurerm_"}
StartPhrases == {"## Example Usage", "Example Usage"}
FooterPatterns == {"HashiCorp", "Â© 20", "Privacy", "Terms of Service"}
skip_patterns ==
    {"Browse", "Sign-in", "Search all resources", "Version History",
     "[Published", "View all versions"}

\* Characters str.strip() removes that the modelled inputs can contain.
Whitespace == {" ", "\t", "\n", "\r", "\f"}

-----------------------------------------------------------------------------
(* Python string primitives                                                *)

\* p in s
Contains(s, p) ==
    \E i \in 1..(Len(s) - Len(p) + 1) : SubSeq(s, i, i + Len(p) - 1) = p

\* s.startswith(p)
StartsWith(s, p) == Len(s) >= Len(p) /\ SubSeq(s, 1, Len(p)) = p

Min(S) == CHOOSE x \in S : \A y \in S : x <= y

\* s.find(p, i) in 1-based positions; Len(s) + 1 when p does not occur from i on
Find(s, p, i) ==
    Min({j \in i..(Len(s) - Len(p) + 1) : SubSeq(s, j, j + Len(p) - 1) = p}
        \cup {Len(s) + 1})

\* s.count(p): non-overlapping occurrences, scanning left to right
RECURSIVE CountFrom(_, _, _)
CountFrom(s, p, i) ==
    LET j == Find(s, p, i) IN
    IF j > Len(s) THEN 0 ELSE 1 + CountFrom(s, p, j + Len(p))

Count(s, p) == CountFrom(s, p, 1)

\* s.split("\n"): always at least one element
RECURSIVE SplitFrom(_, _)
SplitFrom(s, i) ==
    LET j == Find(s, "\n", i) IN
    IF j > Len(s) THEN <<SubSeq(s, i, Len(s))>>
    ELSE <<SubSeq(s, i, j - 1)>> \o SplitFrom(s, j + 1)

Split(s) == SplitFrom(s, 1)

\* "\n".join(ls)
RECURSIVE Join(_)
Join(ls) ==
    IF Len(ls) = 0 THEN ""
    ELSE IF Len(ls) = 1 THEN ls[1]
    ELSE ls[1] \o "\n" \o Join(Tail(ls))

\* end (exclusive) of the maximal run of "\n" that starts at position i
RunEnd(s, i) ==
    Min({j \in i..Len(s) : SubSeq(s, j, j) # "\n"} \cup {Len(s) + 1})

\* re.sub(r"\n{3,}", "\n\n", s): every maximal run of 3 or more newlines -> 2
RECURSIVE SubNewlinesFrom(_, _)
SubNewlinesFrom(s, i) ==
    LET j == Find(s, "\n", i) IN
    IF j > Len(s) THEN SubSeq(s, i, Len(s))
    ELSE LET e == RunEnd(s, j) IN
         SubSeq(s, i, j - 1)
         \o (IF e - j >= 3 THEN "\n\n" ELSE SubSeq(s, j, e - 1))
         \o SubNewlinesFrom(s, e)

KeepNewlines(s) == s

SubNewlines(s) == SubNewlinesFrom(s, 1)

\* s.strip(): drop the leading and the trailing run of whitespace
Max(S) == CHOOSE x \in S : \A y \in S : x >= y

StripLeftOnly(s) ==
    LET solid == {j \in 1..Len(s) : SubSeq(s, j, j) \notin Whitespace} IN
    IF solid = {} THEN "" ELSE SubSeq(s, Min(solid), Len(s))

Strip(s) ==
    LET solid == {j \in 1..Len(s) : SubSeq(s, j, j) \notin Whitespace} IN
    IF solid = {} THEN "" ELSE SubSeq(s, Min(solid), Max(solid))

-----------------------------------------------------------------------------
(* clean_terraform_docs                                                    *)

IsHeadingLine(line) == \E p \in StartPrefixes : StartsWith(line, p)

IsStartLine(line) ==
    IsHeadingLine(line) \/ \E p \in StartPhrases : Contains(line, p)

IsFooterLine(line) == \E p \in FooterPatterns : Contains(line, p)

\* first loop: the first matching line, 0 when none matches
RECURSIVE StartScan(_, _)
StartScan(lines, i) ==
    IF i >= Len(lines) THEN 0
    ELSE IF IsStartLine(lines[i + 1]) THEN i
    ELSE StartScan(lines, i + 1)

DocStartHeadingOnly(lines) ==
    IF \E i \in 0..(Len(lines) - 1) : IsHeadingLine(lines[i + 1])
    THEN CHOOSE i \in 0..(Len(lines) - 1) :
            /\ IsHeadingLine(lines[i + 1])
            /\ \A j \in 0..(i - 1) : ~IsHeadingLine(lines[j + 1])
    ELSE 0

DocStart(lines) == StartScan(lines, 0)

\* second loop: for i in range(len(lines) - 1, doc_start, -1)
RECURSIVE EndScan(_, _, _)
EndScan(lines, i, doc_start) ==
    IF i <= doc_start THEN Len(lines)
    ELSE IF IsFooterLine(lines[i + 1]) THEN i
    ELSE EndScan(lines, i - 1, doc_start)

DocEnd(lines, doc_start) == EndScan(lines, Len(lines) - 1, doc_start)

SkipLineGuard151(line) ==
    \/ (\E p \in skip_patterns : Contains(line, p)) /\ Len(line) < NavLineGuard + 1
    \/ Count(line, "](") > MaxLinks

\* the two `continue` conditions of the filtering loop
SkipLine(line) ==
    \/ (\E p \in skip_patterns : Contains(line, p)) /\ Len(line) < NavLineGuard
    \/ Count(line, "](") > MaxLinks

\* indices of lines[doc_start:doc_end] that are appended to cleaned_lines
Kept(lines, doc_start, doc_end) ==
    SelectSeq([k \in 1..(doc_end - doc_start) |-> doc_start + k - 1],
              LAMBDA i : ~SkipLine(lines[i + 1]))

\* every local of one call of clean_terraform_docs; .markdown is its result
CleanRun(md) ==
    LET lines == Split(md)
        doc_start == DocStart(lines)
        doc_end == DocEnd(lines, doc_start)
        kept == Kept(lines, doc_start, doc_end)
        cleaned_lines == [k \in 1..Len(kept) |-> lines[kept[k] + 1]]
    IN  [lines |-> lines, doc_start |-> doc_start, doc_end |-> doc_end,
         kept |-> kept, cleaned_lines |-> cleaned_lines,
         markdown |-> Strip(SubNewlines(Join(cleaned_lines)))]

clean_terraform_docs(md) == CleanRun(md).markdown

-----------------------------------------------------------------------------
(* Inputs of the clean specification                                       *)

RECURSIVE Rep(_, _)
Rep(s, n) ==
    IF n = 0 THEN ""
    ELSE LET half == Rep(s, n \div 2) IN
         half \o half \o (IF n % 2 = 1 THEN s ELSE "")

SeqsUpTo(S, n) == UNION {[1..k -> S] : k \in 1..n}

NavLine149 == "Browse " \o Rep("x", 142)
NavLine150 == "Browse " \o Rep("x", 143)
PaddedNavLine == Rep(" ", 100) \o "Browse " \o Rep("x", 50)
Links5 == Rep("[a](b)", 5)
Links6 == Rep("[a](b)", 6)

BoundaryPool ==
    {"# azurerm_foo", "Example Usage", "HashiCorp", "", "some docs", "Browse"}
FilterPool == {NavLine149, NavLine150, PaddedNavLine, Links5, Links6, "some docs"}
CharPool == {"a", "\n", " "}

Scenario1 == "# azurerm_foo\n\nsome docs\n\nHashiCorp\nPrivacy\n"

RECURSIVE Concat(_)
Concat(cs) == IF Len(cs) = 0 THEN "" ELSE cs[1] \o Concat(Tail(cs))

CleanInputs ==
    {Join(ls) : ls \in SeqsUpTo(BoundaryPool, MaxLines)}
    \cup {Join(ls) : ls \in SeqsUpTo(FilterPool, MaxFilterLines)}
    \cup {Concat(cs) : cs \in SeqsUpTo(CharPool, MaxChars)}
    \cup {Scenario1, "intro\n" \o Scenario1, "Â© 2024 Acme\nPrivacy"}

NoRun == [lines |-> <<>>, doc_start |-> 0, doc_end |-> 0, kept |-> <<>>,
          cleaned_lines |-> <<>>, markdown |-> ""]

-----------------------------------------------------------------------------------------------------------------------------------------------------
(* scrape_url: data                                                        *)

Requests == 1..NumRequests

RegistryHost == "https://registry.terraform.io"

\* request.url values: a path, an absolute url, a relative path without "/"
UrlPool == {"/providers/x", "https://example.com/docs", "docs/x"}

NoUrl == "<unset>"

\* documents the renderer can return: cleaned lengths 200, 199 and 50
Doc200 == "# azurerm_foo\n" \o Rep("x", 186) \o "\nPrivacy\nfooter"
Doc199 == "# azurerm_foo\n" \o Rep("x", 185) \o "\nPrivacy\nfooter"
Doc50 == "nav\n# azurerm_foo\n" \o Rep("x", 36) \o "\n\n\n"

RenderDocs == {Doc200, Doc199, Doc50}
RenderFailures == {"timeout"}
RenderExceptions == {"net::ERR_ABORTED"}
EnterExceptions == {"browser launch failed"}
ExitExceptions == {"browser close failed"}

\* what `await crawler.arun(...)` can produce: a result object, or an exception
RenderOutcomes ==
    {[kind |-> "result", success |-> TRUE, raw_markdown |-> d, error_message |-> ""] :
        d \in RenderDocs}
    \cup {[kind |-> "result", success |-> FALSE, raw_markdown |-> "", error_message |-> m] :
        m \in RenderFailures}
    \cup {[kind |-> "exception", success |-> FALSE, raw_markdown |-> "", error_message |-> e] :
        e \in RenderExceptions}

NoResult == [kind |-> "none", success |-> FALSE, raw_markdown |-> "", error_message |-> ""]

\* ScrapeResponse(markdown, success, error); error is <<>> for None, <<e>> for a string
ScrapeResponse(markdown, success, error) ==
    [kind |-> "response", markdown |-> markdown, success |-> success,
     error |-> error, status_code |-> 200, detail |-> ""]

\* HTTPException(status_code, detail)
HTTPException(status_code, detail) ==
    [kind |-> "http_exception", markdown |-> "", success |-> FALSE,
     error |-> <<>>, status_code |-> status_code, detail |-> detail]

\* any other exception e, with str(e) = msg
OtherException(msg) ==
    [kind |-> "exception", markdown |-> "", success |-> FALSE,
     error |-> <<>>, status_code |-> 0, detail |-> msg]

NoFlow ==
    [kind |-> "none", markdown |-> "", success |-> FALSE,
     error |-> <<>>, status_code |-> 0, detail |-> ""]

-----------------------------------------------------------------------------
(* scrape_url: steps                                                       *)

FullUrlAlwaysPrefixed(u) == RegistryHost \o u

\* full_url = f"https://registry.terraform.io{url}" if url.startswith("/") else url
FullUrl(u) == IF StartsWith(u, "/") THEN RegistryHost \o u ELSE u

RenderFailedNever(res) == FALSE

\* if not result.success
RenderFailed(res) == ~res.success

TooShortBelow199(markdown) == Len(markdown) < MinContent - 1

\* if len(markdown) < 200
TooShort(markdown) == Len(markdown) < MinContent

\* the body of the `async with` block once arun has produced res: how control
\* leaves the block, and the values clean_terraform_docs returned on the way
Process(res) ==
    IF res.kind = "exception"
    THEN [pending |-> OtherException(res.error_message), cleaned |-> <<>>]
    ELSE IF RenderFailed(res)
    THEN [pending |-> HTTPException(500, "Crawl failed: " \o res.error_message),
          cleaned |-> <<>>]
    ELSE LET markdown == clean_terraform_docs(res.raw_markdown) IN
         IF TooShort(markdown)
         THEN [pending |-> HTTPException(500,
                   "Extracted content too short (" \o ToString(Len(markdown))
                   \o " chars). Page may not have loaded properly."),
               cleaned |-> <<markdown>>]
         ELSE [pending |-> ScrapeResponse(markdown, TRUE, <<>>),
               cleaned |-> <<markdown>>]

\* Process over every outcome of the renderer, evaluated once
ProcessTable == [res \in RenderOutcomes |-> Process(res)]

HandleSwallowingHttp(flow) ==
    IF flow.kind = "exception"
    THEN ScrapeResponse("", FALSE, <<flow.detail>>)
    ELSE IF flow.kind = "http_exception"
    THEN ScrapeResponse("", FALSE, <<flow.detail>>)
    ELSE flow

\* the except clauses: HTTPException is re-raised, any other exception becomes
\* a ScrapeResponse, a return value passes through
Handle(flow) ==
    IF flow.kind = "exception"
    THEN ScrapeResponse("", FALSE, <<flow.detail>>)
    ELSE flow

SessionLeftOpenOnError(flow) == IF flow.kind = "response" THEN "closed" ELSE "open"

\* `async with` runs __aexit__ however the block is left
SessionAfterExit(flow) == "closed"

\* AsyncWebCrawler(config=browser_config): a new object for every call
NewCrawlerId(ss) == Len(ss) + 1

InitScrape ==
    /\ pc = [r \in Requests |-> "idle"]
    /\ url = [r \in Requests |-> NoUrl]
    /\ full_url = [r \in Requests |-> NoUrl]
    /\ crawler = [r \in Requests |-> 0]
    /\ sessions = <<>>
    /\ handed = [r \in Requests |-> <<>>]
    /\ result = [r \in Requests |-> NoResult]
    /\ cleaned = [r \in Requests |-> <<>>]
    /\ pending = [r \in Requests |-> NoFlow]
    /\ teardown = [r \in Requests |-> "none"]
    /\ outcome = [r \in Requests |-> NoFlow]

\* POST /scrape arrives: configs and full_url are built, the crawler object is
\* constructed and its __aenter__ is awaited
Begin(r, u) ==
    /\ pc[r] = "idle"
    /\ url' = [url EXCEPT ![r] = u]
    /\ full_url' = [full_url EXCEPT ![r] = FullUrl(u)]
    /\ crawler' = [crawler EXCEPT ![r] = NewCrawlerId(sessions)]
    /\ sessions' = Append(sessions, "new")
    /\ pc' = [pc EXCEPT ![r] = "entering"]
    /\ UNCHANGED <<handed, result, cleaned, pending, teardown, outcome, cleanVars>>

\* __aenter__ returns: the session is open and crawler.arun(url=full_url) is awaited
EnterOk(r) ==
    /\ pc[r] = "entering"
    /\ sessions' = [sessions EXCEPT ![crawler[r]] = "open"]
    /\ handed' = [handed EXCEPT ![r] = Append(@, full_url[r])]
    /\ pc' = [pc EXCEPT ![r] = "running"]
    /\ UNCHANGED <<url, full_url, crawler, result, cleaned, pending, teardown,
                   outcome, cleanVars>>

\* __aenter__ raises: no session was opened, `except Exception` answers
EnterFails(r, e) ==
    /\ pc[r] = "entering"
    /\ sessions' = [sessions EXCEPT ![crawler[r]] = "failed"]
    /\ pending' = [pending EXCEPT ![r] = OtherException(e)]
    /\ outcome' = [outcome EXCEPT ![r] = Handle(OtherException(e))]
    /\ pc' = [pc EXCEPT ![r] = "done"]
    /\ UNCHANGED <<url, full_url, crawler, handed, result, cleaned, teardown,
                   cleanVars>>

\* crawler.arun completes with res; the rest of the block runs and __aexit__
\* is awaited
Rendered(r, res) ==
    /\ pc[r] = "running"
    /\ result' = [result EXCEPT ![r] = res]
    /\ cleaned' = [cleaned EXCEPT ![r] = @ \o ProcessTable[res].cleaned]
    /\ pending' = [pending EXCEPT ![r] = ProcessTable[res].pending]
    /\ pc' = [pc EXCEPT ![r] = "closing"]
    /\ UNCHANGED <<url, full_url, crawler, sessions, handed, teardown, outcome,
                   cleanVars>>

\* __aexit__ returns: the pending return or exception continues
ExitOk(r) ==
    /\ pc[r] = "closing"
    /\ sessions' = [sessions EXCEPT ![crawler[r]] = SessionAfterExit(pending[r])]
    /\ teardown' = [teardown EXCEPT ![r] = "ok"]
    /\ outcome' = [outcome EXCEPT ![r] = Handle(pending[r])]
    /\ pc' = [pc EXCEPT ![r] = "done"]
    /\ UNCHANGED <<url, full_url, crawler, handed, result, cleaned, pending,
                   cleanVars>>

\* __aexit__ itself raises e: e replaces whatever was pending
ExitRaises(r, e) ==
    /\ pc[r] = "closing"
    /\ sessions' = [sessions EXCEPT ![crawler[r]] = SessionAfterExit(pending[r])]
    /\ teardown' = [teardown EXCEPT ![r] = "raised"]
    /\ outcome' = [outcome EXCEPT ![r] = Handle(OtherException(e))]
    /\ pc' = [pc EXCEPT ![r] = "done"]
    /\ UNCHANGED <<url, full_url, crawler, handed, result, cleaned, pending,
                   cleanVars>>

Init ==
    /\ InitScrape
    /\ raw = ""
    /\ phase = "off"
    /\ run = NoRun
    /\ run2 = NoRun

Next ==
    \/ \E r \in Requests, u \in UrlPool : Begin(r, u)
    \/ \E r \in Requests : EnterOk(r)
    \/ \E r \in Requests, e \in EnterExceptions : EnterFails(r, e)
    \/ \E r \in Requests, res \in RenderOutcomes : Rendered(r, res)
    \/ \E r \in Requests : ExitOk(r)
    \/ \E r \in Requests, e \in ExitExceptions : ExitRaises(r, e)

Spec == Init /\ [][Next]_vars

-----------------------------------------------------------------------------
(* Clean specification: one document, cleaned, then cleaned again          *)

InitClean ==
    /\ raw \in CleanInputs
    /\ phase = "input"
    /\ run = NoRun
    /\ run2 = NoRun
    /\ InitScrape

CleanDoc ==
    /\ phase = "input"
    /\ run' = CleanRun(raw)
    /\ phase' = "cleaned"
    /\ UNCHANGED <<raw, run2, scrapeVars>>

CleanAgain ==
    /\ phase = "cleaned"
    /\ run2' = CleanRun(run.markdown)
    /\ phase' = "recleaned"
    /\ UNCHANGED <<raw, run, scrapeVars>>

NextClean == CleanDoc \/ CleanAgain

SpecClean == InitClean /\ [][NextClean]_vars

-----------------------------------------------------------------------------
(* Properties of scrape_url (specification Spec)                           *)

IsAbsoluteUrl(u) == StartsWith(u, "http://") \/ StartsWith(u, "https://")

Finished(r) == pc[r] = "done"

\* the request met one of the two expected failure kinds
RenderReportedFailure(r) == result[r].kind = "result" /\ ~result[r].success
ContentTooShort(r) ==
    result[r].kind = "result" /\ result[r].success /\ cleaned[r] # <<>>
    /\ Len(cleaned[r][1]) < 200

\* C1: every ScrapeResponse that scrape_url returns has, when success is true,
\* a non-empty markdown of at least 200 characters that is the value clean
\* returned, and, when success is false, an empty markdown and an error that
\* is not None.
C1_ResponseContract ==
    \A r \in Requests :
        outcome[r].kind = "response" =>
            /\ outcome[r].success =>
                   /\ outcome[r].markdown # ""
                   /\ Len(outcome[r].markdown) >= 200
                   /\ cleaned[r] = <<outcome[r].markdown>>
            /\ ~outcome[r].success =>
                   /\ outcome[r].markdown = ""
                   /\ outcome[r].error # <<>>

C1_Witness ==
    \E r1, r2 \in Requests :
        /\ outcome[r1].kind = "response" /\ outcome[r1].success
        /\ outcome[r2].kind = "response" /\ ~outcome[r2].success

\* C2 as claimed: for a renderer-reported failure with message m, and for a
\* cleaned output shorter than 200 characters, scrape_url does not raise but
\* returns a result with success false whose error contains m, respectively
\* the measured length.
C2_NeverRaisesForExpectedFailures ==
    \A r \in Requests :
        Finished(r) =>
            /\ RenderReportedFailure(r) =>
                   /\ outcome[r].kind = "response"
                   /\ ~outcome[r].success
                   /\ outcome[r].error # <<>>
                   /\ Contains(outcome[r].error[1], result[r].error_message)
            /\ ContentTooShort(r) =>
                   /\ outcome[r].kind = "response"
                   /\ ~outcome[r].success
                   /\ outcome[r].error # <<>>
                   /\ Contains(outcome[r].error[1], ToString(Len(cleaned[r][1])))

\* C2 amended: for both expected failure kinds scrape_url ends by raising an
\* HTTPException with status 500 whose detail contains the renderer's message,
\* respectively the measured length; only when closing the session itself
\* raises does it return a result, with success false, an empty markdown and
\* an error. It never returns success true in these cases.
C2_ExpectedFailuresRaiseHttp500 ==
    \A r \in Requests :
        Finished(r) /\ (RenderReportedFailure(r) \/ ContentTooShort(r)) =>
            /\ teardown[r] = "ok" =>
                   /\ outcome[r].kind = "http_exception"
                   /\ outcome[r].status_code = 500
                   /\ RenderReportedFailure(r) =>
                          Contains(outcome[r].detail, result[r].error_message)
                   /\ ContentTooShort(r) =>
                          Contains(outcome[r].detail, ToString(Len(cleaned[r][1])))
            /\ teardown[r] = "raised" =>
                   /\ outcome[r].kind = "response"
                   /\ ~outcome[r].success
                   /\ outcome[r].markdown = ""
                   /\ outcome[r].error # <<>>

C2_Witness ==
    \E r1, r2 \in Requests :
        /\ Finished(r1) /\ RenderReportedFailure(r1) /\ teardown[r1] = "ok"
        /\ result[r1].error_message = "timeout"
        /\ Finished(r2) /\ ContentTooShort(r2) /\ teardown[r2] = "ok"
        /\ Len(cleaned[r2][1]) = 50

\* C7: every request constructs its own crawler; a session is open only while
\* its request is inside the `async with` block, so once a request has
\* finished, however it finished, its session is not open, and no two
\* requests use the same session.
C7_SessionsScopedToRequest ==
    /\ \A r \in Requests :
           Finished(r) => sessions[crawler[r]] \in {"closed", "failed"}
    /\ \A r1, r2 \in Requests :
           r1 # r2 /\ crawler[r1] # 0 => crawler[r1] # crawler[r2]
    /\ \A i \in DOMAIN sessions :
           sessions[i] = "open" =>
               \E r \in Requests : crawler[r] = i /\ pc[r] \in {"running", "closing"}

C7_Witness ==
    \E r1, r2 \in Requests :
        /\ r1 # r2
        /\ Finished(r1) /\ sessions[crawler[r1]] = "closed"
        /\ pending[r1].kind \in {"exception", "http_exception"}
        /\ pc[r2] \in {"running", "closing"} /\ sessions[crawler[r2]] = "open"

\* C8: a request calls the renderer at most once, exactly once when it has
\* reached the render stage; clean is called at most once and only after that
\* single render returned a result with success true, so a failed render is
\* final.
C8_SingleRenderThenClean ==
    \A r \in Requests :
        /\ Len(handed[r]) <= 1
        /\ pc[r] \in {"running", "closing"} \/ result[r].kind # "none" =>
               Len(handed[r]) = 1
        /\ Len(cleaned[r]) <= 1
        /\ cleaned[r] # <<>> =>
               /\ result[r].kind = "result" /\ result[r].success
               /\ Len(handed[r]) = 1
        /\ result[r].kind = "none" => cleaned[r] = <<>>

C8_Witness ==
    \E r1, r2 \in Requests :
        /\ Finished(r1) /\ RenderReportedFailure(r1)
        /\ Len(handed[r1]) = 1 /\ cleaned[r1] = <<>>
        /\ Finished(r2) /\ Len(handed[r2]) = 1 /\ Len(cleaned[r2]) = 1

\* C9 as claimed: the url handed to the renderer is always absolute: a url
\* beginning with "/" is prefixed with the registry host, an absolute url is
\* passed unchanged, and no other url reaches the renderer unresolved.
C9_RendererGetsAbsoluteUrl ==
    \A r \in Requests : \A k \in DOMAIN handed[r] :
        /\ IsAbsoluteUrl(handed[r][k])
        /\ StartsWith(url[r], "/") => handed[r][k] = RegistryHost \o url[r]
        /\ IsAbsoluteUrl(url[r]) => handed[r][k] = url[r]

\* C9 amended: a url beginning with "/" is handed to the renderer prefixed
\* with the registry host; every other url, absolute or not, is handed over
\* unchanged. So the renderer gets an absolute url when the request url begins
\* with "/" or is itself absolute.
C9_PrefixOrPassThrough ==
    \A r \in Requests : \A k \in DOMAIN handed[r] :
        /\ StartsWith(url[r], "/") =>
               handed[r][k] = "https://registry.terraform.io" \o url[r]
        /\ ~StartsWith(url[r], "/") => handed[r][k] = url[r]
        /\ StartsWith(url[r], "/") \/ IsAbsoluteUrl(url[r]) =>
               IsAbsoluteUrl(handed[r][k])

C9_Witness ==
    \E r1, r2 \in Requests :
        /\ handed[r1] = <<"docs/x">>
        /\ handed[r2] = <<"https://registry.terraform.io/providers/x">>

-----------------------------------------------------------------------------
(* Properties of clean_terraform_docs (specification SpecClean)            *)

CleanDone == phase \in {"cleaned", "recleaned"}

LineIdx == 0..(Len(run.lines) - 1)
SliceIdx == run.doc_start..(run.doc_end - 1)
KeptSet == {run.kept[k] : k \in DOMAIN run.kept}

HasNavPhrase(line) == \E p \in skip_patterns : Contains(line, p)
NonBlank(line) == \E j \in 1..Len(line) : SubSeq(line, j, j) \notin Whitespace
FromFirstSolid(line) ==
    SubSeq(line, Min({j \in 1..Len(line) : SubSeq(line, j, j) \notin Whitespace}),
           Len(line))
ToLastSolid(line) ==
    SubSeq(line, 1, Max({j \in 1..Len(line) : SubSeq(line, j, j) \notin Whitespace}))

\* t is s without its leading and trailing whitespace
IsTrimOf(t, s) ==
    IF NonBlank(s)
    THEN \E a \in 1..Len(s) :
            /\ SubSeq(s, a, a) \notin Whitespace
            /\ \A j \in 1..(a - 1) : SubSeq(s, j, j) \in Whitespace
            /\ \E b \in a..Len(s) :
                   /\ SubSeq(s, b, b) \notin Whitespace
                   /\ \A j \in (b + 1)..Len(s) : SubSeq(s, j, j) \in Whitespace
                   /\ t = SubSeq(s, a, b)
    ELSE t = ""

HeadingIdx == {i \in LineIdx : IsHeadingLine(run.lines[i + 1])}
StartIdx == {i \in LineIdx : IsStartLine(run.lines[i + 1])}
FooterIdx == {i \in LineIdx : IsFooterLine(run.lines[i + 1])}

\* C3 as claimed: when the input has a footer marker line, the output of
\* clean contains no footer marker and no line at or after the detected footer
\* position; clean of the scenario document is "# azurerm_foo\n\nsome docs".
C3_FooterRemoved ==
    CleanDone =>
        /\ FooterIdx # {} =>
               /\ \A p \in FooterPatterns : ~Contains(run.markdown, p)
               /\ \A i \in KeptSet : i < run.doc_end
        /\ raw = Scenario1 => run.markdown = "# azurerm_foo\n\nsome docs"

\* C4 as claimed: when the input has a start heading, no line positioned
\* before that heading survives; without any start marker the start boundary
\* is line 0.
C4_NothingBeforeHeading ==
    CleanDone =>
        /\ HeadingIdx # {} => \A i \in KeptSet : i >= Min(HeadingIdx)
        /\ StartIdx = {} => run.doc_start = 0

\* C4 amended: the start boundary is the first start marker line, a heading
\* or a line containing "Example Usage", whichever comes first, and no line
\* positioned before it survives (so none before the heading when the heading
\* is the first marker); without any start marker the start boundary is
\* line 0.
C4_NothingBeforeFirstStartMarker ==
    CleanDone =>
        /\ StartIdx # {} =>
               /\ run.doc_start = Min(StartIdx)
               /\ \A i \in KeptSet : i >= Min(StartIdx)
        /\ StartIdx = {} => run.doc_start = 0

C4_Witness ==
    /\ CleanDone
    /\ HeadingIdx # {}
    /\ Min(HeadingIdx) > 0
    /\ Min(StartIdx) = Min(HeadingIdx)
    /\ KeptSet # {}

\* C5: each line of the slice [doc_start, doc_end) is dropped if and only if
\* it contains a navigation phrase and is shorter than 150 characters, or it
\* contains more than 5 "](": a phrase line of length 149 is dropped and one
\* of length >= 150 with at most 5 links is kept, a line with 5 links and no
\* phrase is kept and one with 6 is dropped; a kept line appears in the output.
C5_FilterDecidesEachLine ==
    CleanDone =>
        /\ KeptSet \subseteq SliceIdx
        /\ \A k \in 1..(Len(run.kept) - 1) : run.kept[k] < run.kept[k + 1]
        /\ \A i \in SliceIdx :
               LET line == run.lines[i + 1]
                   links == Count(line, "](")
               IN  /\ i \in KeptSet <=>
                          ~((HasNavPhrase(line) /\ Len(line) < 150) \/ links > 5)
                   /\ HasNavPhrase(line) /\ Len(line) = 149 => i \notin KeptSet
                   /\ HasNavPhrase(line) /\ Len(line) >= 150 /\ links <= 5 =>
                          i \in KeptSet
                   /\ ~HasNavPhrase(line) /\ links = 5 => i \in KeptSet
                   /\ links = 6 => i \notin KeptSet
                   /\ i \in KeptSet /\ NonBlank(line) /\ IsTrimOf(line, line) =>
                          \E j \in DOMAIN Split(run.markdown) :
                              Split(run.markdown)[j] = line

C5_Witness ==
    /\ CleanDone
    /\ \E i, j \in SliceIdx :
           /\ run.lines[i + 1] = NavLine149 /\ i \notin KeptSet
           /\ run.lines[j + 1] = NavLine150 /\ j \in KeptSet

NoBoundaryMarkers == StartIdx = {} /\ FooterIdx = {}
NoExcessBlankLines == ~Contains(raw, "\n\n\n")
NoNoiseLines ==
    \A i \in LineIdx :
        ~HasNavPhrase(run.lines[i + 1]) /\ Count(run.lines[i + 1], "](") <= 5

\* C6 as claimed: a document with no boundary markers and no excess blank
\* lines is returned unchanged except for trimming of leading and trailing
\* whitespace, and cleaning the result again changes nothing.
C6_IdempotentWithoutMarkers ==
    phase = "recleaned" /\ NoBoundaryMarkers /\ NoExcessBlankLines =>
        /\ IsTrimOf(run.markdown, raw)
        /\ run2.markdown = run.markdown

\* C6 amended: a document with no boundary markers, no run of 3 or more
\* newlines and no line that contains a navigation phrase or more than 5
\* links is returned unchanged except for trimming of leading and trailing
\* whitespace, and cleaning the result again changes nothing.
C6_IdempotentWithoutMarkersAndNoise ==
    phase = "recleaned" /\ NoBoundaryMarkers /\ NoExcessBlankLines /\ NoNoiseLines =>
        /\ IsTrimOf(run.markdown, raw)
        /\ run2.markdown = run.markdown

C6_Witness ==
    /\ phase = "recleaned"
    /\ NoBoundaryMarkers /\ NoExcessBlankLines /\ NoNoiseLines
    /\ Len(run.lines) >= 2
    /\ run.markdown # raw
    /\ run.markdown # ""

FiveNewlinesAfter(i) ==
    /\ i + 5 \in LineIdx
    /\ i \in KeptSet /\ i + 5 \in KeptSet
    /\ NonBlank(run.lines[i + 1]) /\ NonBlank(run.lines[i + 6])
    /\ \A j \in (i + 1)..(i + 4) : run.lines[j + 1] = ""

\* C10: the output of clean never contains 3 or more consecutive newlines and
\* never begins or ends with whitespace; two retained non-blank lines that
\* are 5 newlines apart in the input are exactly 2 newlines apart in the
\* output.
C10_WhitespaceNormalized ==
    CleanDone =>
        /\ ~Contains(run.markdown, "\n\n\n")
        /\ run.markdown # "" =>
               /\ SubSeq(run.markdown, 1, 1) \notin Whitespace
               /\ SubSeq(run.markdown, Len(run.markdown), Len(run.markdown))
                      \notin Whitespace
        /\ \A i \in LineIdx :
               FiveNewlinesAfter(i) =>
                   Contains(run.markdown,
                            FromFirstSolid(run.lines[i + 1]) \o "\n\n"
                            \o ToLastSolid(run.lines[i + 6]))

C10_Witness == CleanDone /\ \E i \in LineIdx : FiveNewlinesAfter(i)

====
